---- MODULE Spec2Model ----
(***************************************************************************)
(* mdbook-template: the `template` preprocessor (src/main.rs).             *)
(*                                                                         *)
(* Text is a sequence of one-character strings.  JSON values are records   *)
(* [t, v]: t the JSON type, v the characters of the value.  The template   *)
(* context is a function from keys (character sequences) to JSON values.   *)
(***************************************************************************)
EXTENDS Integers, Sequences, FiniteSets, TLC

(* ----------------------------- bounds --------------------------------- *)

\* Longest `paths` array of the configuration.
MaxPaths == 2

\* Most items (chapters, separators) of a book.
MaxItems == 2

\* Most segments a chapter's content is assembled from (text specification).
MaxSegs == 5

(* ------------------------------ text ---------------------------------- *)

Min(S) == CHOOSE x \in S : \A y \in S : x <= y

\* Whether p occurs in s at position i.
IsPrefixAt(s, i, p) ==
    /\ i >= 1
    /\ i + Len(p) - 1 <= Len(s)
    /\ \A j \in 1..Len(p) : s[i + j - 1] = p[j]

\* The first position >= i where p occurs in s; 0 when there is none.
FindFrom(s, i, p) ==
    LET c == {j \in i..(Len(s) - Len(p) + 1) : IsPrefixAt(s, j, p)}
    IN  IF c = {} THEN 0 ELSE Min(c)

\* Whether p occurs anywhere in s.
Contains(s, p) == FindFrom(s, 1, p) # 0

RECURSIVE Concat(_)
Concat(ss) == IF ss = <<>> THEN <<>> ELSE Head(ss) \o Concat(Tail(ss))

DollarOpen == <<"$", "{", "{">>
Open == <<"{", "{">>
Close == <<"}", "}">>
Newline == "\n"

\* format!("{}", n) of a usize: the decimal digits of n.
Digit(d) == <<"0", "1", "2", "3", "4", "5", "6", "7", "8", "9">>[d + 1]

RECURSIVE FormatUsize(_)
FormatUsize(n) ==
    IF n < 10 THEN <<Digit(n)>> ELSE FormatUsize(n \div 10) \o <<Digit(n % 10)>>

\* format!("__PROTECTED_PATTERN_{}__", idx)
Placeholder(idx) ==
    <<"_", "_", "P", "R", "O", "T", "E", "C", "T", "E", "D", "_",
      "P", "A", "T", "T", "E", "R", "N", "_">> \o FormatUsize(idx) \o <<"_", "_">>

\* The regex \$\{\{.*?\}\} tried at position i: the last position of the match, or
\* 0 when it does not match there.  `.` matches every character but a line break,
\* and .*? is lazy, so the match ends at the first }} that follows the opening,
\* provided no line break lies between.
MatchEnd(s, i) ==
    IF ~IsPrefixAt(s, i, DollarOpen) THEN 0
    ELSE LET e == FindFrom(s, i + 3, Close)
         IN  IF e = 0 \/ (\E j \in (i + 3)..(e - 1) : s[j] = Newline)
             THEN 0
             ELSE e + 1

\* dollar_brace_re.replace_all(&ch.content, |caps| ...) from position i on, the
\* closure having been called idx times: leftmost, non-overlapping matches, each
\* pushed to protected_patterns and replaced by the placeholder of its index.
RECURSIVE ReplaceAllFrom(_, _, _)
ReplaceAllFrom(s, i, idx) ==
    IF i > Len(s) THEN [text |-> <<>>, patterns |-> <<>>]
    ELSE LET e == MatchEnd(s, i)
         IN  IF e = 0
             THEN LET r == ReplaceAllFrom(s, i + 1, idx)
                  IN  [text |-> <<s[i]>> \o r.text, patterns |-> r.patterns]
             ELSE LET r == ReplaceAllFrom(s, e + 1, idx + 1)
                  IN  [text |-> Placeholder(idx) \o r.text,
                       patterns |-> <<SubSeq(s, i, e)>> \o r.patterns]

\* The guard pass over a chapter's content: protected_content and
\* protected_patterns.
Guard(content) == ReplaceAllFrom(content, 1, 0)

\* str::replace(from, to) from position i on: every non-overlapping occurrence,
\* left to right.
RECURSIVE StrReplaceFrom(_, _, _, _)
StrReplaceFrom(s, i, from, to) ==
    IF i > Len(s) THEN <<>>
    ELSE IF IsPrefixAt(s, i, from)
         THEN to \o StrReplaceFrom(s, i + Len(from), from, to)
         ELSE <<s[i]>> \o StrReplaceFrom(s, i + 1, from, to)

StrReplace(s, from, to) == StrReplaceFrom(s, 1, from, to)

\* The restore loop: for (idx, pattern) in protected_patterns.iter().enumerate(),
\* from index idx on.
RECURSIVE RestoreFrom(_, _, _)
RestoreFrom(rendered, patterns, idx) ==
    IF idx >= Len(patterns) THEN rendered
    ELSE RestoreFrom(StrReplace(rendered, Placeholder(idx), patterns[idx + 1]),
                     patterns, idx + 1)

Restore(rendered, patterns) == RestoreFrom(rendered, patterns, 0)

(* ----------------------------- renderer -------------------------------- *)

\* Characters of a Handlebars identifier, and its whitespace.
IdentChars ==
    {"_", "$", "-", "k", "n", "m", "r", "x", "v", "w",
     "P", "R", "O", "T", "E", "C", "D", "A", "N",
     "0", "1", "2", "3", "4", "5", "6", "7", "8", "9"}

Whitespace == {" ", Newline}

RECURSIVE TrimLeft(_)
TrimLeft(s) ==
    IF s # <<>> /\ Head(s) \in Whitespace THEN TrimLeft(Tail(s)) ELSE s

RECURSIVE TrimRight(_)
TrimRight(s) ==
    IF s # <<>> /\ s[Len(s)] \in Whitespace
    THEN TrimRight(SubSeq(s, 1, Len(s) - 1))
    ELSE s

Trim(s) == TrimRight(TrimLeft(s))

IsIdent(s) == s # <<>> /\ \A j \in 1..Len(s) : s[j] \in IdentChars

\* How Handlebars writes a JSON value into the output.
Stringify(val) ==
    IF val.t = "obj" THEN <<"[", "o", "b", "j", "e", "c", "t", "]">> ELSE val.v

\* A variable looked up in the context; a missing one renders as nothing.
Lookup(context, key) ==
    IF key \in DOMAIN context THEN Stringify(context[key]) ELSE <<>>

\* hbs.render_template(template, &context) from position i on: text up to the
\* next {{ is copied, {{ identifier }} is replaced by the variable's value, and
\* an expression that is unclosed or no identifier is an error.
RECURSIVE RenderFrom(_, _, _)
RenderFrom(t, i, context) ==
    IF i > Len(t) THEN [ok |-> TRUE, text |-> <<>>]
    ELSE IF IsPrefixAt(t, i, Open)
         THEN LET c == FindFrom(t, i + 2, Close)
                  inner == Trim(SubSeq(t, i + 2, c - 1))
              IN  IF c = 0 \/ ~IsIdent(inner)
                  THEN [ok |-> FALSE, text |-> <<>>]
                  ELSE LET r == RenderFrom(t, c + 2, context)
                       IN  [ok |-> r.ok,
                            text |-> IF r.ok THEN Lookup(context, inner) \o r.text
                                              ELSE <<>>]
         ELSE LET r == RenderFrom(t, i + 1, context)
              IN  [ok |-> r.ok, text |-> IF r.ok THEN <<t[i]>> \o r.text ELSE <<>>]

RenderTemplate(t, context) == RenderFrom(t, 1, context)

(* ------------------------- the JSON data files -------------------------- *)

Chars_v == <<"v">>
Chars_w == <<"w">>
Chars_2 == <<"2">>
Chars_x1 == <<"{", "\"", "x", "\"", ":", "1", "}">>
Chars_y2 == <<"{", "\"", "y", "\"", ":", "2", "}">>

Key_k == <<"k">>
Key_m == <<"m">>
Key_n == <<"n">>

TxtA == "{\"k\":\"v\",\"n\":{\"x\":1}}"
TxtB == "{\"k\":\"w\",\"m\":2,\"n\":{\"y\":2}}"
TxtList == "[1]"
TxtBad == "{\"k\":"

Paths == {"a.json", "b.json", "list.json", "bad.json", "missing.json"}

\* fs::read_to_string(path): the file's text, or an error for a file that is not
\* there.
ReadToString(path) ==
    CASE path = "a.json" -> [ok |-> TRUE, txt |-> TxtA]
      [] path = "b.json" -> [ok |-> TRUE, txt |-> TxtB]
      [] path = "list.json" -> [ok |-> TRUE, txt |-> TxtList]
      [] path = "bad.json" -> [ok |-> TRUE, txt |-> TxtBad]
      [] OTHER -> [ok |-> FALSE, txt |-> ""]

\* serde_json::from_str(&txt): the parsed root, its members in iteration order when
\* it is an object, or an error for text that is no JSON.
FromStr(txt) ==
    CASE txt = TxtA ->
           [ok |-> TRUE, root |-> "object",
            map |-> << [key |-> Key_k, val |-> [t |-> "str", v |-> Chars_v]],
                       [key |-> Key_n, val |-> [t |-> "obj", v |-> Chars_x1]] >>]
      [] txt = TxtB ->
           [ok |-> TRUE, root |-> "object",
            map |-> << [key |-> Key_k, val |-> [t |-> "str", v |-> Chars_w]],
                       [key |-> Key_m, val |-> [t |-> "num", v |-> Chars_2]],
                       [key |-> Key_n, val |-> [t |-> "obj", v |-> Chars_y2]] >>]
      [] txt = TxtList -> [ok |-> TRUE, root |-> "array", map |-> <<>>]
      [] OTHER -> [ok |-> FALSE, root |-> "", map |-> <<>>]

\* Json::Object(serde_json::Map::new())
EmptyContext == [key \in {} |-> [t |-> "null", v |-> <<>>]]

\* Insert that keeps the value of a key already present.
InsertKeepFirst(ctx_map, k, v) ==
    [key \in DOMAIN ctx_map \cup {k} |-> IF key \in DOMAIN ctx_map THEN ctx_map[key] ELSE v]

\* ctx_map.insert(k, v): the key's value is replaced, or the key added.
Insert(ctx_map, k, v) ==
    [key \in DOMAIN ctx_map \cup {k} |-> IF key = k THEN v ELSE ctx_map[key]]

\* for (k, v) in map { ctx_map.insert(k, v); } from member j on.
RECURSIVE InsertAll(_, _, _)
InsertAll(ctx_map, map, j) ==
    IF j > Len(map) THEN ctx_map
    ELSE InsertAll(Insert(ctx_map, map[j].key, map[j].val), map, j + 1)

\* Merge that empties the context on a root that is no object.
MergeReset(ctx_map, val) ==
    IF val.root = "object" THEN InsertAll(ctx_map, val.map, 1) ELSE EmptyContext

\* if let Json::Object(map) = val { ... }: a root that is no object merges nothing.
Merge(ctx_map, val) ==
    IF val.root = "object" THEN InsertAll(ctx_map, val.map, 1) ELSE ctx_map

(* ------------------------------ the book -------------------------------- *)

\* The closure of for_each_mut on one item: a chapter is guarded, rendered and,
\* when the render succeeds, restored and overwritten; a render error is logged
\* and the chapter kept; any other item is left alone.
RenderError(name) == <<"Handlebars render error in ", name, ": ", "e">>

\* ProcessItem that overwrites the content whether or not the render succeeded.
ProcessItemOverwrite(item, ctx_map) ==
    IF item.kind = "Chapter"
    THEN LET g == Guard(item.content)
             r == RenderTemplate(g.text, ctx_map)
         IN  [item |-> [item EXCEPT !.content = Restore(r.text, g.patterns)],
              errors |-> IF r.ok THEN <<>> ELSE <<RenderError(item.name)>>,
              calls |-> <<[name |-> item.name,
                           content |-> item.content,
                           protected_content |-> g.text,
                           protected_patterns |-> g.patterns,
                           ok |-> r.ok,
                           rendered |-> r.text]>>]
    ELSE [item |-> item, errors |-> <<>>, calls |-> <<>>]

\* ProcessItem that builds the chapter anew from its name and the rendered text,
\* losing its place below its parent.
ProcessItemRebuild(item, ctx_map) ==
    IF item.kind = "Chapter"
    THEN LET g == Guard(item.content)
             r == RenderTemplate(g.text, ctx_map)
         IN  [item |-> IF r.ok
                       THEN [kind |-> "Chapter", name |-> item.name,
                             content |-> Restore(r.text, g.patterns), depth |-> 0]
                       ELSE item,
              errors |-> IF r.ok THEN <<>> ELSE <<RenderError(item.name)>>,
              calls |-> <<[name |-> item.name,
                           content |-> item.content,
                           protected_content |-> g.text,
                           protected_patterns |-> g.patterns,
                           ok |-> r.ok,
                           rendered |-> r.text]>>]
    ELSE [item |-> item, errors |-> <<>>, calls |-> <<>>]

ProcessItem(item, ctx_map) ==
    IF item.kind = "Chapter"
    THEN LET g == Guard(item.content)
             r == RenderTemplate(g.text, ctx_map)
         IN  [item |-> IF r.ok
                       THEN [item EXCEPT !.content = Restore(r.text, g.patterns)]
                       ELSE item,
              errors |-> IF r.ok THEN <<>> ELSE <<RenderError(item.name)>>,
              calls |-> <<[name |-> item.name,
                           content |-> item.content,
                           protected_content |-> g.text,
                           protected_patterns |-> g.patterns,
                           ok |-> r.ok,
                           rendered |-> r.text]>>]
    ELSE [item |-> item, errors |-> <<>>, calls |-> <<>>]

\* The items below item i: those that follow it at a greater depth.
RECURSIVE SubItemsFrom(_, _, _)
SubItemsFrom(items, i, j) ==
    IF j > Len(items) \/ items[j].depth <= items[i].depth THEN <<>>
    ELSE <<j>> \o SubItemsFrom(items, i, j + 1)

\* Book::for_each_mut: the items in the order the closure is called on them, a
\* chapter's sub_items before the chapter itself.
RECURSIVE ForEachOrder(_, _)
ForEachOrder(items, i) ==
    IF i > Len(items) THEN <<>>
    ELSE LET subs == SubItemsFrom(items, i, i + 1)
         IN  subs \o <<i>> \o ForEachOrder(items, i + Len(subs) + 1)

(* ------------------------------ the state ------------------------------- *)

VARIABLES
    cmd,        \* the first command-line argument ("" when there is none)
    stdinOk,    \* whether standard input holds a well-formed (context, book) pair
    config,     \* ctx.config: the [preprocessor.template] table and its `paths`
    book0,      \* the book as it arrives on standard input
    pc,         \* where the program is
    book,       \* `book` of run, mutated in place
    context,    \* `context` of run
    p,          \* the index of the next entry of `paths` (the for loop)
    reads,      \* the paths handed to fs::read_to_string so far, in order
    pos,        \* the position of for_each_mut in its order of items
    calls,      \* every render_template call so far: what it was handed and gave
    log,        \* the error-level log
    result,     \* what run returned
    stdout,     \* what was written to standard output
    exitCode    \* the process's exit status

vars == <<cmd, stdinOk, config, book0, pc, book, context, p, reads, pos, calls, log,
          result, stdout, exitCode>>

inputs == <<cmd, stdinOk, config, book0>>

SeqsUpTo(S, n) == UNION {[1..k -> S] : k \in 0..n}

(* ------------------------------ the inputs ------------------------------ *)

\* A `paths` entry: a string naming a file, or a value that is no string.
Entries == {[str |-> TRUE, path |-> q] : q \in Paths} \cup {[str |-> FALSE, path |-> ""]}

NoSection == [section |-> FALSE, hasPaths |-> FALSE, paths |-> <<>>]
NoPaths == [section |-> TRUE, hasPaths |-> FALSE, paths |-> <<>>]
WithPaths(ps) == [section |-> TRUE, hasPaths |-> TRUE, paths |-> ps]

Configs == {NoSection, NoPaths} \cup {WithPaths(ps) : ps \in SeqsUpTo(Entries, MaxPaths)}

ChapterNames == <<"Intro", "Usage", "Notes", "Guide", "Index", "Annex">>

\* "{{k}} ${{r}}": a variable and a guarded pattern.
DocMixed == Open \o <<"k">> \o Close \o <<" ">> \o DollarOpen \o <<"r">> \o Close

\* "{{k": an expression that is never closed.
DocBroken == Open \o <<"k">>

Contents == {DocMixed, DocBroken}

ItemChoices ==
    {[kind |-> "Separator", content |-> <<>>, depth |-> d] : d \in 0..1}
    \cup {[kind |-> "Chapter", content |-> c, depth |-> d] : c \in Contents, d \in 0..1}

\* An item at depth 1 is a sub-item of the nearest item before it at depth 0, which
\* is a chapter.
ValidDepths(s) ==
    \A i \in 1..Len(s) :
        s[i].depth = 1 =>
            \E j \in 1..(i - 1) :
                /\ s[j].depth = 0
                /\ s[j].kind = "Chapter"
                /\ \A l \in (j + 1)..(i - 1) : s[l].depth = 1

MkBook(s) ==
    [i \in 1..Len(s) |->
        [kind |-> s[i].kind,
         name |-> IF s[i].kind = "Chapter" THEN ChapterNames[i] ELSE "",
         content |-> s[i].content,
         depth |-> s[i].depth]]

Books == {MkBook(s) : s \in {s \in SeqsUpTo(ItemChoices, MaxItems) : ValidDepths(s)}}

\* The text specification: one chapter whose content is any sequence of segments.
Segments ==
    {DollarOpen, Open, Close, <<"k">>, <<Newline>>, Placeholder(0), Placeholder(1)}

Texts == {Concat(s) : s \in SeqsUpTo(Segments, MaxSegs)}

TextBooks ==
    {MkBook(<<[kind |-> "Chapter", content |-> c, depth |-> 0]>>) : c \in Texts}

TextConfigs == {WithPaths(<<>>), WithPaths(<<[str |-> TRUE, path |-> "a.json"]>>)}

(* ------------------------------ the program ----------------------------- *)

Ok == [ok |-> TRUE, err |-> <<>>]
Err(msg) == [ok |-> FALSE, err |-> msg]
NotReturned == [ok |-> FALSE, err |-> <<>>]

InitWith(cs, bs) ==
    /\ \/ cmd = "supports" /\ stdinOk = FALSE /\ config = NoSection /\ book0 = <<>>
       \/ cmd = "" /\ stdinOk = FALSE /\ config = NoSection /\ book0 = <<>>
       \/ cmd = "" /\ stdinOk = TRUE /\ config \in cs /\ book0 \in bs
    /\ pc = "main"
    /\ book = <<>>
    /\ context = EmptyContext
    /\ p = 1
    /\ reads = <<>>
    /\ pos = 1
    /\ calls = <<>>
    /\ log = <<>>
    /\ result = NotReturned
    /\ stdout = <<>>
    /\ exitCode = -1

Init == InitWith(Configs, Books)

InitText == InitWith(TextConfigs, TextBooks)

\* main, `supports <renderer>`: supports_renderer is true of every renderer.
Supports ==
    /\ pc = "main"
    /\ cmd = "supports"
    /\ pc' = "exit"
    /\ exitCode' = 0
    /\ UNCHANGED <<inputs, book, context, p, reads, pos, calls, log, result, stdout>>

\* main: CmdPreprocessor::parse_input(io::stdin()), `?` on its error.
ParseInput ==
    /\ pc = "main"
    /\ cmd # "supports"
    /\ IF stdinOk
       THEN pc' = "run" /\ book' = book0 /\ exitCode' = exitCode
       ELSE pc' = "exit" /\ book' = book /\ exitCode' = 1
    /\ UNCHANGED <<inputs, context, p, reads, pos, calls, log, result, stdout>>

\* run: the configuration table and its `paths` array, then the empty context.
\* (The messages are the code's, without the backquotes around `paths`.)
ReadConfig ==
    /\ pc = "run"
    /\ IF ~config.section
       THEN /\ result' = Err(<<"missing [preprocessor.template] config with a paths array">>)
            /\ pc' = "returned"
       ELSE IF ~config.hasPaths
       THEN /\ result' = Err(<<"missing paths array under [preprocessor.template]">>)
            /\ pc' = "returned"
       ELSE /\ result' = result
            /\ pc' = "loading"
    /\ context' = EmptyContext
    /\ p' = 1
    /\ UNCHANGED <<inputs, book, reads, pos, calls, log, stdout, exitCode>>

\* The body of `for p in paths` up to the merge, on entry e: the entry is a string,
\* the file is read, its text is parsed, each with `?` on its error.  reads: the
\* calls of fs::read_to_string made.
NoValue == [ok |-> FALSE, root |-> "", map |-> <<>>]

\* LoadEntry that takes a file it cannot read or parse for one with nothing to merge.
LoadEntryLenient(e) ==
    IF ~e.str
    THEN [ok |-> FALSE, err |-> <<"paths entries must be strings">>, reads |-> <<>>,
          val |-> NoValue]
    ELSE LET txt == ReadToString(e.path)
             val == FromStr(txt.txt)
         IN  IF ~txt.ok \/ ~val.ok
             THEN [ok |-> TRUE, err |-> <<>>, reads |-> <<e.path>>,
                   val |-> [ok |-> TRUE, root |-> "null", map |-> <<>>]]
             ELSE [ok |-> TRUE, err |-> <<>>, reads |-> <<e.path>>, val |-> val]

\* LoadEntry that skips an entry that is no string.
LoadEntrySkipNonString(e) ==
    IF ~e.str
    THEN [ok |-> TRUE, err |-> <<>>, reads |-> <<>>,
          val |-> [ok |-> TRUE, root |-> "null", map |-> <<>>]]
    ELSE LET txt == ReadToString(e.path)
             val == FromStr(txt.txt)
         IN  IF ~txt.ok
             THEN [ok |-> FALSE, err |-> <<"reading ", e.path>>, reads |-> <<e.path>>,
                   val |-> NoValue]
             ELSE IF ~val.ok
             THEN [ok |-> FALSE, err |-> <<"parsing ", e.path>>, reads |-> <<e.path>>,
                   val |-> NoValue]
             ELSE [ok |-> TRUE, err |-> <<>>, reads |-> <<e.path>>, val |-> val]

\* LoadEntry with the two phases' messages exchanged.
LoadEntrySwapPhase(e) ==
    IF ~e.str
    THEN [ok |-> FALSE, err |-> <<"paths entries must be strings">>, reads |-> <<>>,
          val |-> NoValue]
    ELSE LET txt == ReadToString(e.path)
             val == FromStr(txt.txt)
         IN  IF ~txt.ok
             THEN [ok |-> FALSE, err |-> <<"parsing ", e.path>>, reads |-> <<e.path>>,
                   val |-> NoValue]
             ELSE IF ~val.ok
             THEN [ok |-> FALSE, err |-> <<"reading ", e.path>>, reads |-> <<e.path>>,
                   val |-> NoValue]
             ELSE [ok |-> TRUE, err |-> <<>>, reads |-> <<e.path>>, val |-> val]

LoadEntry(e) ==
    IF ~e.str
    THEN [ok |-> FALSE, err |-> <<"paths entries must be strings">>, reads |-> <<>>,
          val |-> NoValue]
    ELSE LET txt == ReadToString(e.path)
             val == FromStr(txt.txt)
         IN  IF ~txt.ok
             THEN [ok |-> FALSE, err |-> <<"reading ", e.path>>, reads |-> <<e.path>>,
                   val |-> NoValue]
             ELSE IF ~val.ok
             THEN [ok |-> FALSE, err |-> <<"parsing ", e.path>>, reads |-> <<e.path>>,
                   val |-> NoValue]
             ELSE [ok |-> TRUE, err |-> <<>>, reads |-> <<e.path>>, val |-> val]

\* run: one iteration of `for p in paths`.
LoadPath ==
    /\ pc = "loading"
    /\ p <= Len(config.paths)
    /\ LET l == LoadEntry(config.paths[p])
       IN  /\ reads' = reads \o l.reads
           /\ IF l.ok
              THEN /\ context' = Merge(context, l.val)
                   /\ p' = p + 1
                   /\ UNCHANGED <<result, pc>>
              ELSE /\ result' = Err(l.err)
                   /\ pc' = "returned"
                   /\ UNCHANGED <<context, p>>
    /\ UNCHANGED <<inputs, book, pos, calls, log, stdout, exitCode>>

\* BeginRendering that does not wait for the loop over `paths` to end.
BeginRenderingEarly ==
    /\ pc = "loading"
    /\ pc' = "rendering"
    /\ pos' = 1
    /\ UNCHANGED <<inputs, book, context, p, reads, calls, log, result, stdout, exitCode>>

\* run: the loop over `paths` is over; the renderer and the regex are built and
\* for_each_mut begins.
BeginRendering ==
    /\ pc = "loading"
    /\ p > Len(config.paths)
    /\ pc' = "rendering"
    /\ pos' = 1
    /\ UNCHANGED <<inputs, book, context, p, reads, calls, log, result, stdout, exitCode>>

\* run: for_each_mut calls the closure on its next item.
ForEachMut ==
    /\ pc = "rendering"
    /\ pos <= Len(book)
    /\ LET i == ForEachOrder(book, 1)[pos]
           r == ProcessItem(book[i], context)
       IN  /\ book' = [book EXCEPT ![i] = r.item]
           /\ log' = log \o r.errors
           /\ calls' = calls \o r.calls
    /\ pos' = pos + 1
    /\ UNCHANGED <<inputs, pc, context, p, reads, result, stdout, exitCode>>

\* run: Ok(book)
ReturnBook ==
    /\ pc = "rendering"
    /\ pos > Len(book)
    /\ result' = Ok
    /\ pc' = "returned"
    /\ UNCHANGED <<inputs, book, context, p, reads, pos, calls, log, stdout, exitCode>>

\* main: `?` on run's error, else the processed book is written to standard output.
Finish ==
    /\ pc = "returned"
    /\ IF result.ok
       THEN stdout' = <<book>> /\ exitCode' = 0
       ELSE stdout' = stdout /\ exitCode' = 1
    /\ pc' = "exit"
    /\ UNCHANGED <<inputs, book, context, p, reads, pos, calls, log, result>>

Next ==
    \/ Supports
    \/ ParseInput
    \/ ReadConfig
    \/ LoadPath
    \/ BeginRendering
    \/ ForEachMut
    \/ ReturnBook
    \/ Finish

Spec == Init /\ [][Next]_vars

SpecText == InitText /\ [][Next]_vars

(* ------------------------------ the claims ------------------------------ *)

Max(S) == CHOOSE x \in S : \A y \in S : x >= y

\* The run is the preprocessor's (not `supports`) and its input was parsed.
Started == cmd # "supports" /\ stdinOk

HasList == config.section /\ config.hasPaths

PathIdx == 1..Len(config.paths)

\* What entry e's file holds, read and parsed on its own.
EntryValue(e) == FromStr(ReadToString(e.path).txt)

Unreadable(e) == e.str /\ ~ReadToString(e.path).ok
Unparsable(e) == e.str /\ ReadToString(e.path).ok /\ ~EntryValue(e).ok
IsObjectFile(e) == e.str /\ EntryValue(e).ok /\ EntryValue(e).root = "object"
IsNonObjectFile(e) == e.str /\ EntryValue(e).ok /\ EntryValue(e).root # "object"
FailsToLoad(e) == ~e.str \/ Unreadable(e) \/ Unparsable(e)

Defines(e, K) ==
    IsObjectFile(e) /\ \E j \in 1..Len(EntryValue(e).map) : EntryValue(e).map[j].key = K

ValueIn(e, K) ==
    LET m == EntryValue(e).map
    IN  m[CHOOSE j \in 1..Len(m) : m[j].key = K].val

AllKeys == {Key_k, Key_m, Key_n}

LoadingDone == pc = "rendering" \/ (pc \in {"returned", "exit"} /\ result.ok)

Returned == pc \in {"returned", "exit"}

ChapterIdx == {i \in 1..Len(book0) : book0[i].kind = "Chapter"}

\* C1. Merge precedence: when every file of paths is a JSON object, after
\* loading the context holds, for each key some file defines, exactly the value
\* of the last file in list order that defines it, and holds no other key.
C1_MergePrecedence ==
    (Started /\ HasList /\ LoadingDone /\ \A i \in PathIdx : IsObjectFile(config.paths[i])) =>
        /\ DOMAIN context \subseteq AllKeys
        /\ \A K \in AllKeys :
            LET def == {i \in PathIdx : Defines(config.paths[i], K)}
            IN  IF def = {} THEN K \notin DOMAIN context
                ELSE /\ K \in DOMAIN context
                     /\ context[K] = ValueIn(config.paths[Max(def)], K)

\* Two files define the same key with different values and loading is over.
C1_Witness ==
    /\ Started /\ HasList /\ LoadingDone
    /\ \A i \in PathIdx : IsObjectFile(config.paths[i])
    /\ \E i, j \in PathIdx, K \in AllKeys :
        /\ i < j
        /\ Defines(config.paths[i], K) /\ Defines(config.paths[j], K)
        /\ ValueIn(config.paths[i], K) # ValueIn(config.paths[j], K)

\* Whether rendering chapter i of the input fails.
RenderFails(i) == ~RenderTemplate(Guard(book0[i].content).text, context).ok

HasBadFile ==
    /\ Started /\ HasList
    /\ \E i \in PathIdx : Unreadable(config.paths[i]) \/ Unparsable(config.paths[i])

\* C3. Fatal loading failure: when the paths list names a file that cannot be
\* read or is no JSON, no document is ever rendered, nothing is written to
\* standard output, the run goes on until it returns an error, and the process
\* exits with a non-zero status.
C3_FatalLoading ==
    HasBadFile =>
        /\ calls = <<>> /\ log = <<>>
        /\ (pc = "main" \/ book = book0)
        /\ stdout = <<>>
        /\ pc # "rendering"
        /\ Returned => ~result.ok
        /\ pc = "exit" => exitCode = 1
        /\ pc # "exit" => ENABLED Next

\* The process has exited on a bad file that follows a good one, with a chapter
\* in the book.
C3_Witness ==
    /\ HasBadFile /\ pc = "exit" /\ exitCode = 1
    /\ Len(config.paths) >= 2
    /\ IsObjectFile(config.paths[1])
    /\ ChapterIdx # {}

\* The scan the claims describe: from position i on, each span that opens with
\* ${{ and closes at the first following }}, whatever lies between, left to right
\* and non-overlapping.
RECURSIVE SpansFrom(_, _)
SpansFrom(s, i) ==
    IF i > Len(s) THEN <<>>
    ELSE IF IsPrefixAt(s, i, DollarOpen) /\ FindFrom(s, i + 3, Close) # 0
         THEN LET e == FindFrom(s, i + 3, Close) + 1
              IN  <<SubSeq(s, i, e)>> \o SpansFrom(s, e + 1)
         ELSE SpansFrom(s, i + 1)

Spans(s) == SpansFrom(s, 1)

\* s with each of its spans replaced by a blank.
RECURSIVE OutsideSpansFrom(_, _)
OutsideSpansFrom(s, i) ==
    IF i > Len(s) THEN <<>>
    ELSE IF IsPrefixAt(s, i, DollarOpen) /\ FindFrom(s, i + 3, Close) # 0
         THEN <<" ">> \o OutsideSpansFrom(s, FindFrom(s, i + 3, Close) + 2)
         ELSE <<s[i]>> \o OutsideSpansFrom(s, i + 1)

\* C4. Mixed-syntax non-interference: every span that opens with ${{ and closes
\* at the first following }} is captured, in order, and the text handed to the
\* renderer contains no such span.
C4_NonInterference ==
    \A j \in 1..Len(calls) :
        /\ calls[j].protected_patterns = Spans(calls[j].content)
        /\ Spans(calls[j].protected_content) = <<>>

NoLineBreak(s) == \A i \in 1..Len(s) : s[i] # Newline

IsPlaceholderAt(s, i) == \E idx \in 0..Len(s) : IsPrefixAt(s, i, Placeholder(idx))

\* Plain text and guarded patterns only: outside the spans there is no {{, and no
\* text that reads as a placeholder token.
OnlyGuardedPatterns(s) ==
    LET rest == OutsideSpansFrom(s, 1)
    IN  /\ ~Contains(rest, Open)
        /\ \A i \in 1..Len(rest) : ~IsPlaceholderAt(rest, i)

\* C5. Guard round-trip: a document of plain text and guarded patterns, with no
\* template expression outside them, whose render succeeds, ends with the
\* content it began with, whatever the captured literals hold.  Stated for
\* content without line breaks, where the guard captures every span.
C5_RoundTrip ==
    \A j \in 1..Len(calls) :
        (/\ calls[j].ok
         /\ NoLineBreak(calls[j].content)
         /\ OnlyGuardedPatterns(calls[j].content)) =>
            \A i \in 1..Len(book) :
                book[i].name = calls[j].name => book[i].content = calls[j].content

Malformed ==
    \/ ~config.section
    \/ ~config.hasPaths
    \/ \E i \in PathIdx : ~config.paths[i].str

ConfigErrors ==
    {<<"missing [preprocessor.template] config with a paths array">>,
     <<"missing paths array under [preprocessor.template]">>,
     <<"paths entries must be strings">>}

\* C6 as stated: with a malformed configuration the run fails, and when it fails
\* with the configuration's error no data file has been read.
C6_NoReadOnMalformed ==
    (Started /\ Malformed /\ Returned) =>
        /\ ~result.ok
        /\ result.err \in ConfigErrors => reads = <<>>

\* C6, amended. With a malformed configuration the run fails with an error and
\* no document is rendered; when the section or the paths list is missing, no
\* file has been read; when an entry is no string, the entries before the first
\* such entry are read (in order) and no entry at or after it.
C6_MalformedConfig ==
    (Started /\ Malformed) =>
        /\ Returned => (~result.ok /\ result.err # <<>>)
        /\ pc # "rendering" /\ calls = <<>> /\ stdout = <<>>
        /\ ~HasList => reads = <<>>
        /\ HasList =>
            LET f == Min({i \in PathIdx : ~config.paths[i].str})
            IN  /\ Len(reads) < f
                /\ \A j \in 1..Len(reads) : reads[j] = config.paths[j].path

\* The run failed on an entry that is no string after reading the file before it.
C6_Witness ==
    /\ Started /\ Malformed /\ pc = "returned"
    /\ result.err = <<"paths entries must be strings">>
    /\ Len(reads) = 1

LoadFails == Started /\ HasList /\ \E i \in PathIdx : FailsToLoad(config.paths[i])

FirstFailing == Min({i \in PathIdx : FailsToLoad(config.paths[i])})

Names(err, q) == \E j \in 1..Len(err) : err[j] = q

\* C7 as stated: the error of a failed load names the first failing entry's path
\* and the phase that failed, whatever made the entry fail.
C7_ErrorNamesPathAndPhase ==
    (LoadFails /\ Returned) =>
        LET e == config.paths[FirstFailing]
        IN  /\ ~result.ok
            /\ Names(result.err, e.path)
            /\ result.err[1] = (IF Unparsable(e) THEN "parsing " ELSE "reading ")
            /\ Len(reads) <= FirstFailing
            /\ calls = <<>> /\ stdout = <<>>

\* C7, amended. When loading fails, the error is that of the first failing entry:
\* "reading <path>" for a file that cannot be read, "parsing <path>" for text that
\* is no JSON, and the fixed "paths entries must be strings", naming no path and no
\* phase, for an entry that is no string; the entries are read in list order up to
\* the failing one (itself not read when it is no string) and none after it; no
\* document is rendered and nothing is written.
C7_ErrorIdentity ==
    LoadFails =>
        LET f == FirstFailing
            e == config.paths[f]
        IN  /\ Returned =>
                /\ ~result.ok
                /\ result.err = (IF ~e.str THEN <<"paths entries must be strings">>
                                 ELSE IF Unreadable(e) THEN <<"reading ", e.path>>
                                 ELSE <<"parsing ", e.path>>)
                /\ Len(reads) = (IF e.str THEN f ELSE f - 1)
            /\ Len(reads) <= f
            /\ \A j \in 1..Len(reads) : reads[j] = config.paths[j].path
            /\ pc # "rendering" /\ calls = <<>> /\ stdout = <<>>

\* The run failed parsing the second file, the first one having been merged.
C7_Witness ==
    /\ LoadFails /\ pc = "returned"
    /\ FirstFailing = 2
    /\ result.err = <<"parsing ", "bad.json">>
    /\ DOMAIN context # {}

\* C8. Non-object JSON source tolerance: the iteration of the loading loop on a
\* file whose JSON root is no object leaves the context as it was, does not end
\* the run, and goes on to the next path.
C8_NonObjectTolerance ==
    [][(pc = "loading" /\ p <= Len(config.paths) /\ IsNonObjectFile(config.paths[p])) =>
          /\ context' = context
          /\ pc' = "loading"
          /\ p' = p + 1
          /\ result' = result
          /\ reads' = Append(reads, config.paths[p].path)]_vars

\* A non-object file has been processed after a file that defined keys.
C8_Witness ==
    /\ Started /\ pc = "loading" /\ p = 3
    /\ IsNonObjectFile(config.paths[2])
    /\ DOMAIN context # {}

\* C9. Frame of a run: the book keeps its number and order of items, each
\* item's kind, name and place in the hierarchy, and every item that is no
\* chapter as a whole; the collection written out is that book.
C9_Frame ==
    (Started /\ pc # "main") =>
        /\ Len(book) = Len(book0)
        /\ \A i \in 1..Len(book0) :
            /\ book[i].kind = book0[i].kind
            /\ book[i].name = book0[i].name
            /\ book[i].depth = book0[i].depth
            /\ book0[i].kind # "Chapter" => book[i] = book0[i]
        /\ (pc = "exit" /\ result.ok) => stdout = <<book>>

\* A run ended having changed a book that holds a separator and a sub-item.
C9_Witness ==
    /\ Started /\ pc = "exit" /\ result.ok
    /\ book # book0
    /\ \E i \in 1..Len(book0) : book0[i].kind = "Separator"
    /\ \E i \in 1..Len(book0) : book0[i].depth = 1

\* Every entry of paths has been loaded.
AllLoaded ==
    /\ HasList
    /\ p = Len(config.paths) + 1
    /\ Len(reads) = Len(config.paths)
    /\ \A i \in PathIdx : ~FailsToLoad(config.paths[i])

\* C10. Phase ordering: Loading is entered once, from the configuration step;
\* Rendering is entered once, from Loading, when every entry is loaded; documents
\* are processed only in Rendering, one per step; from Rendering on no file is
\* read, the context does not change, and Loading is not entered again.
C10_PhaseOrdering ==
    [][/\ (pc' = "loading" /\ pc # "loading") => pc = "run"
       /\ (pc' = "rendering" /\ pc # "rendering") => (pc = "loading" /\ AllLoaded)
       /\ (calls' # calls \/ log' # log \/ (book' # book /\ pc # "main")) =>
             /\ pc = "rendering" /\ pc' = "rendering"
             /\ AllLoaded
             /\ pos' = pos + 1
             /\ Len(calls') <= Len(calls) + 1
       /\ pc \in {"rendering", "returned", "exit"} =>
             /\ reads' = reads
             /\ context' = context
             /\ pc' \in {"rendering", "returned", "exit"}]_vars

\* Rendering is under way after two files were loaded.
C10_Witness ==
    /\ pc = "rendering"
    /\ Len(reads) = 2
    /\ calls # <<>>
    /\ pos <= Len(book)

====
